---- MODULE Spec2Model ----
(***************************************************************************)
(* Pact Collection Commitment Tracker (src/src/App.tsx).                   *)
(*                                                                         *)
(* The module models                                                       *)
(*   - the tier table and the commitment calculator (calculateProrated-    *)
(*     Commitment, calculateLbsContributed, getStatus, getMemberStats),    *)
(*   - the "Remaining to Reach Commitment" calculator of MemberPortalView  *)
(*     (calculatorValues, touchedSliders, handleSliderChange, reset),      *)
(*   - App and AdminView: the member list, the view mode, the filters, the *)
(*     tier and program editors and the detail panel, with the             *)
(*     MemberPortalView that App or the detail panel renders.              *)
(*                                                                         *)
(* Numbers.  The code computes in IEEE-754 doubles and rounds with         *)
(* Math.round (round half towards +infinity).  The model computes the same *)
(* values with integers: a quotient num/den is rounded by RoundHalfUp, and *)
(* DoubleTieLoss follows the two roundings of the double expression        *)
(* (processed / capacity) * annualCommitment to tell the inputs on which   *)
(* it falls just below an exact tie k + 0.5, so that Math.round yields k,  *)
(* not k + 1.                                                              *)
(* A percentage is kept as the exact fraction [num, den].                  *)
(* A Date is kept as the two fields the code reads from it: getFullYear()  *)
(* and getMonth() (0 = January), both in local time.                       *)
(***************************************************************************)
EXTENDS Integers, Sequences, FiniteSets, TLC

VARIABLES
    member,            \* the `member` prop of the rendered MemberPortalView
    calculatorValues,  \* MemberPortalView: useState, line 314
    touchedSliders,    \* MemberPortalView: useState, line 321
    propChanged,       \* history: the prop changed since the view was mounted
    lastEvent,         \* history: the last event handled
    call,              \* calculator harness: the pending call of a pure function
    ret,               \* calculator harness: what that call returned
    members,           \* App: useState, line 909
    selectedMember,    \* App: useState, line 910
    viewMode,          \* App: useState, lines 905-908
    saved,             \* localStorage item 'pact-view-mode'
    effectPending,     \* App: the useEffect of lines 913-915 is due
    editingTier,       \* AdminView: useState, line 617
    newTier,           \* AdminView: useState, line 618
    filter,            \* AdminView: useState, line 619
    editingPrograms,   \* AdminView: useState, line 620
    selectedPrograms,  \* AdminView: useState, line 621
    confirmTierChange, \* AdminView: useState, line 624
    events,            \* the number of events the App has handled
    calculatorUsed     \* history: one of them was a calculator event

\* The state of the App component and of the views it renders.
appVars ==
    <<member, calculatorValues, touchedSliders, propChanged, lastEvent, members,
      selectedMember, viewMode, saved, effectPending, editingTier, newTier, filter,
      editingPrograms, selectedPrograms, confirmTierChange, events, calculatorUsed>>

vars ==
    <<member, calculatorValues, touchedSliders, propChanged, lastEvent, call, ret, members,
      selectedMember, viewMode, saved, effectPending, editingTier, newTier, filter,
      editingPrograms, selectedPrograms, confirmTierChange, events, calculatorUsed>>

-----------------------------------------------------------------------------
(* Bounds of the model.                                                    *)

\* Slider inputs: 0..SliderLow and the SliderGrid-th parts of the range.
SliderGrid == 4
SliderLow == 2
\* Slider values of the changes made before a slider change of the calculator
\* harness: the PriorGrid-th parts of the range above 0.
PriorGrid == 2
\* Processed quantities of the calculator harness: the ProcGrid-th parts of
\* the capacity, up to twice the capacity (and the quantities of TieInputs).
ProcGrid == 2
\* Join dates of the calculator harness: this many months before the first
\* month of the cycle and after its last month.
MonthsAround == 2
\* Percentages of the calculator harness: the whole percentages up to this.
PercentMax == 120
\* The events (clicks, selections, reloads) the App handles in one behaviour.
MaxEvents == 5
\* The events the App handles in a behaviour in which the calculator is used
\* (a slider is changed, or the calculator reset).
MaxEventsWithCalculator == 4
\* Enrollment candidates of the handler harness: the lists of programs up to
\* this length, repetitions included.
CandidateLen == 3

-----------------------------------------------------------------------------
(* Tier table and program types.                                           *)

TierNames == {"Enterprise", "Corporate", "Large", "Established", "Small", "Indie"}

TIERS ==
    [t \in TierNames |->
        CASE t = "Enterprise"  -> [binsCapacity |-> 600, packagesCapacity |-> 11000,
                                   obsoleteCapacity |-> 75000, annualCommitment |-> 21000]
          [] t = "Corporate"   -> [binsCapacity |-> 300, packagesCapacity |-> 5500,
                                   obsoleteCapacity |-> 37500, annualCommitment |-> 10500]
          [] t = "Large"       -> [binsCapacity |-> 100, packagesCapacity |-> 1800,
                                   obsoleteCapacity |-> 12500, annualCommitment |-> 3500]
          [] t = "Established" -> [binsCapacity |-> 50, packagesCapacity |-> 900,
                                   obsoleteCapacity |-> 6500, annualCommitment |-> 1750]
          [] t = "Small"       -> [binsCapacity |-> 5, packagesCapacity |-> 90,
                                   obsoleteCapacity |-> 650, annualCommitment |-> 175]
          [] t = "Indie"       -> [binsCapacity |-> 2, packagesCapacity |-> 40,
                                   obsoleteCapacity |-> 300, annualCommitment |-> 70]]

ProgramType == {"inStore", "mailBack", "obsolete"}

\* new Date('2027-03-31'): midnight UTC, which is 30 or 31 March 2027 in every
\* time zone, so getFullYear() = 2027 and getMonth() = 2 everywhere.
CYCLE_END == [year |-> 2027, month |-> 2]

TOTAL_CYCLE_MONTHS == 12

\* The capacity field the code pairs with each program (the if/else chains of
\* getMemberStats, calculatorLbs and handleSliderChange).
capacityOf(tier, program) ==
    CASE program = "inStore"  -> tier.binsCapacity
      [] program = "mailBack" -> tier.packagesCapacity
      [] program = "obsolete" -> tier.obsoleteCapacity

-----------------------------------------------------------------------------
(* Arithmetic.                                                             *)

Max(a, b) == IF a >= b THEN a ELSE b
Min(a, b) == IF a <= b THEN a ELSE b

\* Math.round(num / den) for an exact quotient, den > 0: floor(num/den + 1/2).
\* Written with quotient and remainder so that no intermediate exceeds 2^31.
RoundHalfUp(num, den) ==
    (num \div den) + (IF 2 * (num % den) >= den THEN 1 ELSE 0)

\* Math.ceil(num / den) for an exact quotient, den > 0.
CeilDiv(num, den) ==
    (num \div den) + (IF num % den = 0 THEN 0 ELSE 1)

\* floor(log2(a / b)) for a, b > 0.
RECURSIVE FloorLog2(_, _)
FloorLog2(a, b) ==
    IF a >= 2 * b THEN 1 + FloorLog2(a, 2 * b)
    ELSE IF a < b THEN FloorLog2(2 * a, b) - 1
    ELSE 0

RECURSIVE Pow2(_)
Pow2(i) == IF i = 0 THEN 1 ELSE 2 * Pow2(i - 1)

\* (x * 2^j) % m, for 0 <= x < m.
RECURSIVE ShiftMod(_, _, _)
ShiftMod(x, j, m) == IF j = 0 THEN x % m ELSE ShiftMod((2 * x) % m, j - 1, m)

\* The double (processed / capacity) * annualCommitment is below k + 1/2 although
\* processed * annualCommitment / capacity is exactly k + 1/2, so that
\* Math.round yields k.  The quotient processed / capacity, of binary exponent
\* e, is rounded to 53 bits (to nearest, ties to even): `low` is
\* processed * 2^(52 - e) modulo 2 * capacity, whose remainder r modulo capacity
\* is what the division cuts off and whose quotient by capacity is the last bit
\* kept.  When the quotient is rounded down, the product with annualCommitment
\* lies annualCommitment * r / capacity * 2^(e - 52) below k + 1/2, of binary
\* exponent p, and is rounded to the double below k + 1/2 when that distance
\* exceeds half the gap 2^(p - 52) between the doubles below k + 1/2 (the gap
\* is 2^(p - 53) below 1/2, a power of two); k + 1/2 has an even 53-bit
\* significand and keeps an exact middle.
DoubleTieLoss(processed, capacity, annualCommitment) ==
    LET rest == ((processed % capacity) * annualCommitment) % capacity
    IN  IF 2 * rest # capacity THEN FALSE
        ELSE LET k == (processed \div capacity) * annualCommitment
                          + ((processed % capacity) * annualCommitment) \div capacity
                 e == FloorLog2(processed, capacity)
                 p == FloorLog2(2 * k + 1, 2)
                 low == ShiftMod(processed % (2 * capacity), 52 - e, 2 * capacity)
                 r == low % capacity
                 roundsUp == 2 * r > capacity \/ (2 * r = capacity /\ low >= capacity)
                 shift == (IF k = 0 THEN 2 ELSE 1) - (p - e)
             IN  /\ r # 0
                 /\ ~roundsUp
                 /\ IF shift >= 0
                    THEN annualCommitment * r > capacity \div Pow2(shift)
                    ELSE annualCommitment * r > capacity * Pow2(0 - shift)

\* Variant: Math.floor in place of Math.round.
calculateLbsContributedFloor(processed, capacity, annualCommitment) ==
    (processed \div capacity) * annualCommitment
        + ((processed % capacity) * annualCommitment) \div capacity

\* Variant: the weight of one unit is rounded to a whole lb first.
calculateLbsContributedPerUnit(processed, capacity, annualCommitment) ==
    processed * RoundHalfUp(annualCommitment, capacity)

\* calculateLbsContributed, and the same expression inlined in calculatorLbs
\* and handleSliderChange: Math.round((processed / capacity) * annualCommitment).
\* The whole multiples of the capacity are split off before the product is
\* taken (they contribute whole multiples of annualCommitment), which keeps
\* every intermediate below 2^31.
calculateLbsContributed(processed, capacity, annualCommitment) ==
    (processed \div capacity) * annualCommitment
        + RoundHalfUp((processed % capacity) * annualCommitment, capacity)
        - (IF DoubleTieLoss(processed, capacity, annualCommitment) THEN 1 ELSE 0)

\* Variant: Math.floor in place of Math.round.
unitsForLbsFloor(stillNeeded, capacity, annualCommitment) ==
    (stillNeeded * capacity) \div annualCommitment

\* handleSliderChange: Math.round((stillNeeded / annualCommitment) * capacity).
\* The quotient is never a tie for the six tiers (capacity / annualCommitment
\* has an odd denominator in lowest terms), so the double rounds as the exact
\* value does.
unitsForLbs(stillNeeded, capacity, annualCommitment) ==
    RoundHalfUp(stillNeeded * capacity, annualCommitment)

-----------------------------------------------------------------------------
(* CommitmentCalculator.                                                   *)

\* Array.prototype.includes on a ProgramType[].
includes(programs, p) == \E i \in 1..Len(programs) : programs[i] = p

\* A percentage as an exact fraction, den > 0.
Fraction(n, d) == [num |-> n, den |-> d]
\* percentage >= k for an integer k.
AtLeast(percentage, k) == percentage.num >= k * percentage.den

\* Variant: the starting month is not counted.
calculateProratedCommitmentExclusive(joinDate, fullCommitment) ==
    LET months == (CYCLE_END.year - joinDate.year) * 12
                      + (CYCLE_END.month - joinDate.month)
        monthsInCycle == Min(months, TOTAL_CYCLE_MONTHS)
    IN  [proratedCommitment |-> RoundHalfUp(fullCommitment * monthsInCycle, TOTAL_CYCLE_MONTHS),
         monthsInCycle |-> monthsInCycle,
         prorationPercent |-> Fraction(monthsInCycle, TOTAL_CYCLE_MONTHS)]

\* calculateProratedCommitment(joinDate, fullCommitment).
calculateProratedCommitment(joinDate, fullCommitment) ==
    LET joinMonth == joinDate.month
        joinYear == joinDate.year
        cycleEndMonth == CYCLE_END.month
        cycleEndYear == CYCLE_END.year
        months == (cycleEndYear - joinYear) * 12 + (cycleEndMonth - joinMonth) + 1
        monthsInCycle == Min(months, TOTAL_CYCLE_MONTHS)
    IN  [proratedCommitment |-> RoundHalfUp(fullCommitment * monthsInCycle, TOTAL_CYCLE_MONTHS),
         monthsInCycle |-> monthsInCycle,
         prorationPercent |-> Fraction(monthsInCycle, TOTAL_CYCLE_MONTHS)]

\* Variant: strict comparisons.
getStatusStrict(percentageComplete) ==
    LET above(k) == percentageComplete.num > k * percentageComplete.den
    IN  IF above(100) THEN [label |-> "Exceeded"]
        ELSE IF above(90) THEN [label |-> "Reached"]
        ELSE IF above(70) THEN [label |-> "On Track"]
        ELSE IF above(50) THEN [label |-> "Needs Attention"]
        ELSE [label |-> "At Risk"]

\* getStatus(percentageComplete): the label of the band; the emoji and the
\* colour classes of the returned object are constants of the band.
getStatus(percentageComplete) ==
    IF AtLeast(percentageComplete, 100) THEN [label |-> "Exceeded"]
    ELSE IF AtLeast(percentageComplete, 90) THEN [label |-> "Reached"]
    ELSE IF AtLeast(percentageComplete, 70) THEN [label |-> "On Track"]
    ELSE IF AtLeast(percentageComplete, 50) THEN [label |-> "Needs Attention"]
    ELSE [label |-> "At Risk"]

\* Variant: the enrollment check left out.
programLbsUnchecked(m, tier, prog) ==
    calculateLbsContributed(m.programs[prog].processed,
                            capacityOf(tier, prog), tier.annualCommitment)

\* Lines 215-223: lbs only from enrolled programs.
programLbs(m, tier, prog) ==
    IF includes(m.enrolledPrograms, prog)
    THEN calculateLbsContributed(m.programs[prog].processed,
                                 capacityOf(tier, prog), tier.annualCommitment)
    ELSE 0

\* getMemberStats(member).
getMemberStats(m) ==
    LET tier == TIERS[m.memberTier]
        pro == calculateProratedCommitment(m.membershipStartDate, tier.annualCommitment)
        inStoreLbs == programLbs(m, tier, "inStore")
        mailBackLbs == programLbs(m, tier, "mailBack")
        obsoleteLbs == programLbs(m, tier, "obsolete")
        totalLbs == inStoreLbs + mailBackLbs + obsoleteLbs
        percentage ==
            IF pro.proratedCommitment > 0
            THEN Fraction(totalLbs * 100, pro.proratedCommitment)
            ELSE Fraction(0, 1)
    IN  [tier |-> tier,
         proratedCommitment |-> pro.proratedCommitment,
         monthsInCycle |-> pro.monthsInCycle,
         prorationPercent |-> pro.prorationPercent,
         inStoreLbs |-> inStoreLbs,
         mailBackLbs |-> mailBackLbs,
         obsoleteLbs |-> obsoleteLbs,
         totalLbs |-> totalLbs,
         percentage |-> percentage,
         status |-> getStatus(percentage),
         enrolledPrograms |-> m.enrolledPrograms]

-----------------------------------------------------------------------------
(* Member records.                                                         *)

\* new Date('2026-04-01') is midnight UTC: April 2026 in local time at or east
\* of UTC, March 2026 west of it.
DemoStartDates == {[year |-> 2026, month |-> 3], [year |-> 2026, month |-> 2]}

Programs(inStore, mailBack, obsolete) ==
    [inStore |-> [processed |-> inStore],
     mailBack |-> [processed |-> mailBack],
     obsolete |-> [processed |-> obsolete]]

\* DEMO_MEMBERS, with the local-time reading `start` of the start date.
DEMO_MEMBERS(start) ==
    << [id |-> "1", memberName |-> "Ulta Beauty", memberTier |-> "Enterprise",
        membershipStartDate |-> start,
        enrolledPrograms |-> <<"inStore", "obsolete">>,
        programs |-> Programs(200, 0, 10000)],
       [id |-> "2", memberName |-> "Credo Beauty", memberTier |-> "Established",
        membershipStartDate |-> start,
        enrolledPrograms |-> <<"inStore", "mailBack", "obsolete">>,
        programs |-> Programs(15, 200, 1500)],
       [id |-> "3", memberName |-> "Kiehl's", memberTier |-> "Enterprise",
        membershipStartDate |-> start,
        enrolledPrograms |-> <<"inStore", "mailBack">>,
        programs |-> Programs(180, 2000, 0)],
       [id |-> "4", memberName |-> "Dr. Loretta", memberTier |-> "Small",
        membershipStartDate |-> start,
        enrolledPrograms |-> <<"mailBack", "obsolete">>,
        programs |-> Programs(0, 25, 150)],
       [id |-> "5", memberName |-> "Saie", memberTier |-> "Small",
        membershipStartDate |-> start,
        enrolledPrograms |-> <<"mailBack", "obsolete">>,
        programs |-> Programs(0, 18, 100)] >>

VALID_PROGRAM_COMBOS ==
    << <<"inStore", "mailBack", "obsolete">>,
       <<"inStore", "mailBack">>,
       <<"inStore", "obsolete">>,
       <<"mailBack", "obsolete">> >>

\* The orders in which enrolledPrograms holds an enrollment: handleProgramSave
\* stores the candidate as toggleProgram built it (lines 654 and 666), a list
\* of 2 or 3 distinct programs in any order.
EnrollmentOrders ==
    { s \in UNION { [1..n -> ProgramType] : n \in 2..3 } :
        \A i, j \in 1..Len(s) : i # j => s[i] # s[j] }

\* The records a MemberPortalView is rendered with: a demo member whose tier
\* (confirmTierUpdate) and enrolled programs (handleProgramSave) an admin may
\* have reassigned.
PortalMembers ==
    { [DEMO_MEMBERS(start)[i] EXCEPT !.memberTier = t, !.enrolledPrograms = e] :
        start \in DemoStartDates, i \in 1..5, t \in TierNames, e \in EnrollmentOrders }

-----------------------------------------------------------------------------
(* MemberPortalView: the "Remaining to Reach Commitment" calculator.       *)

\* remainingLbs, line 311.
remainingLbs(m) ==
    LET stats == getMemberStats(m)
    IN  Max(0, stats.proratedCommitment - stats.totalLbs)

\* The max attribute of a program's range input, lines 490, 509, 528:
\* Math.ceil((remainingLbs / tier.annualCommitment) * capacity).  On the
\* remaining targets of PortalMembers the double product has the exact
\* ceiling.
sliderMax(tier, remaining, program) ==
    CeilDiv(remaining * capacityOf(tier, program), tier.annualCommitment)

\* The values a range input with min 0 and the given max is moved to in this
\* model.
SliderInputs(max) ==
    (0..Min(max, SliderLow)) \cup { (max * k) \div SliderGrid : k \in 0..SliderGrid }

\* Variant: the clamp at 0 left out.
stillNeededLbsUnclamped(remaining, usedLbs) == remaining - usedLbs

\* Math.max(0, remainingLbs - usedLbs), lines 432 and 460.
stillNeededLbs(remaining, usedLbs) == Max(0, remaining - usedLbs)

\* Variant: the filter left out, so a program can enter the history twice.
touchedAfterUnfiltered(touched, changedProgram) ==
    LET all == <<changedProgram>> \o touched
    IN  SubSeq(all, 1, Min(2, Len(all)))

\* [changedProgram, ...touchedSliders.filter(p => p !== changedProgram)].slice(0, 2)
touchedAfter(touched, changedProgram) ==
    LET all == <<changedProgram>> \o SelectSeq(touched, LAMBDA p : p # changedProgram)
    IN  SubSeq(all, 1, Min(2, Len(all)))

RECURSIVE SumSeq(_)
SumSeq(s) == IF s = <<>> THEN 0 ELSE Head(s) + SumSeq(Tail(s))

\* The if/else chains on the program: lbs of `n` units of a program
\* (lines 417-423, 449-455) and units of a program for `needed` lbs
\* (lines 434-440, 462-468).
lbsOf(tier, prog, n) ==
    calculateLbsContributed(n, capacityOf(tier, prog), tier.annualCommitment)
unitsOf(tier, prog, needed) ==
    unitsForLbs(needed, capacityOf(tier, prog), tier.annualCommitment)

\* calculatorLbs, lines 395-405: the lbs of the calculator values of the
\* enrolled programs.
calculatorLbs(tier, enrolledPrograms, values) ==
    SumSeq([i \in 1..Len(enrolledPrograms) |->
                lbsOf(tier, enrolledPrograms[i], values[enrolledPrograms[i]])])

\* stillRemaining, line 407.
stillRemaining(remaining, lbs) == Max(0, remaining - lbs)

\* Variant: the other slot is adjusted only while it is still at 0.
adjustOtherIfUnset(tier, remaining, newValues, otherProgram, changedLbs) ==
    IF newValues[otherProgram] = 0
    THEN [newValues EXCEPT ![otherProgram] =
             unitsOf(tier, otherProgram, stillNeededLbs(remaining, changedLbs))]
    ELSE newValues

\* 2-program member, lines 430-440: adjust the other program to complete the
\* commitment.
adjustOther(tier, remaining, newValues, otherProgram, changedLbs) ==
    LET stillNeeded == stillNeededLbs(remaining, changedLbs)
    IN  [newValues EXCEPT ![otherProgram] = unitsOf(tier, otherProgram, stillNeeded)]

\* Variant: the stale state value is read for the changed program too.
valueForStale(values, changedProgram, newValue, prog) == values[prog]

\* Line 448: prog === changedProgram ? newValue : calculatorValues[prog].
valueFor(values, changedProgram, newValue, prog) ==
    IF prog = changedProgram THEN newValue ELSE values[prog]

\* Variant: redistribution starts with the first touch.
oneTouched(newTouched) == Len(newTouched) >= 1

\* Line 444: the 3rd slider is calculated once two sliders are touched.
twoTouched(newTouched) == Len(newTouched) >= 2

\* 3-program member, lines 444-469: the untouched program fills the gap.
fillUntouched(tier, remaining, enrolledPrograms, values, newValues, newTouched, changedProgram, newValue) ==
    IF twoTouched(newTouched)
    THEN LET touchedLbs ==
                 SumSeq([i \in 1..Len(newTouched) |->
                            lbsOf(tier, newTouched[i],
                                  valueFor(values, changedProgram, newValue, newTouched[i]))])
             \* enrolledPrograms.find(p => !newTouched.includes(p))
             untouched ==
                 { i \in 1..Len(enrolledPrograms) : ~includes(newTouched, enrolledPrograms[i]) }
             stillNeeded == stillNeededLbs(remaining, touchedLbs)
         IN  IF untouched = {}
             THEN newValues
             ELSE LET untouchedProgram ==
                          enrolledPrograms[CHOOSE i \in untouched : \A j \in untouched : i <= j]
                  IN  [newValues EXCEPT
                          ![untouchedProgram] = unitsOf(tier, untouchedProgram, stillNeeded)]
    ELSE newValues

\* handleSliderChange(changedProgram, newValue).  The closure reads tier,
\* remainingLbs and member.enrolledPrograms of the render it was created in and
\* that render's calculatorValues and touchedSliders; the result is the state
\* it sets.
handleSliderChange(tier, remaining, enrolledPrograms, values, touched, changedProgram, newValue) ==
    LET newTouched == touchedAfter(touched, changedProgram)
        changedLbs == lbsOf(tier, changedProgram, newValue)
        newValues == [values EXCEPT ![changedProgram] = newValue]
        otherPrograms == SelectSeq(enrolledPrograms, LAMBDA p : p # changedProgram)
    IN  [calculatorValues |->
            IF Len(otherPrograms) = 1
            THEN adjustOther(tier, remaining, newValues, otherPrograms[1], changedLbs)
            ELSE IF Len(otherPrograms) = 2
            THEN fillUntouched(tier, remaining, enrolledPrograms, values, newValues,
                               newTouched, changedProgram, newValue)
            ELSE newValues,
         touchedSliders |-> newTouched]

NoValues == [p \in ProgramType |-> 0]

\* The calculator harness is idle while the App runs.
NoCall == [fn |-> "none"]
Pending == [done |-> FALSE]

\* The events of the calculator: none yet, onChange of the range input of
\* `program` with `value`, and a click on "Reset calculator".
NoEvent == [kind |-> "none", program |-> "none", value |-> 0]
ChangeEvent(p, v) == [kind |-> "change", program |-> p, value |-> v]
ResetEvent == [kind |-> "reset", program |-> "none", value |-> 0]

\* null, for a member id, a member record and a pending tier change.
NoId == "null"
NoMember == [id |-> NoId]
NoTierChange == [memberId |-> NoId]
-----------------------------------------------------------------------------
(* App and AdminView: the handlers.                                        *)

FilterType == {"all", "onTrack", "attention", "atRisk"}
ViewModes == {"member", "admin"}
\* What localStorage.getItem('pact-view-mode') may return at startup: null,
\* one of the two flags, or any other string.
StoredItems == {NoId, "member", "admin", "other"}

\* { ...m, ...updates } for a Partial<MemberData>.
Merge(m, updates) ==
    [f \in DOMAIN m |-> IF f \in DOMAIN updates THEN updates[f] ELSE m[f]]

\* Variant: only the list is updated.
handleUpdateMemberListOnly(ms, selected, id, updates) ==
    [members |->
        [i \in 1..Len(ms) |-> IF ms[i].id = id THEN Merge(ms[i], updates) ELSE ms[i]],
     selectedMember |-> selected]

\* Variant: the id of the member is not compared.
handleUpdateMemberAll(ms, selected, id, updates) ==
    [members |-> [i \in 1..Len(ms) |-> Merge(ms[i], updates)],
     selectedMember |-> IF selected.id = id THEN Merge(selected, updates) ELSE selected]

\* handleUpdateMember(id, updates), lines 920-932: the new members and the
\* new selectedMember.
handleUpdateMember(ms, selected, id, updates) ==
    [members |->
        [i \in 1..Len(ms) |-> IF ms[i].id = id THEN Merge(ms[i], updates) ELSE ms[i]],
     selectedMember |->
        IF selected.id = id THEN Merge(selected, updates) ELSE selected]

\* members.find(m => m.id === memberId); NoMember for undefined.
find(ms, memberId) ==
    IF \E i \in 1..Len(ms) : ms[i].id = memberId
    THEN ms[CHOOSE i \in 1..Len(ms) :
                /\ ms[i].id = memberId
                /\ \A j \in 1..(i - 1) : ms[j].id # memberId]
    ELSE NoMember

\* Variant: the tier is written to the member at once.
handleTierSaveApplied(ms, selected, chosen, pending, memberId) ==
    [members |-> handleUpdateMember(ms, selected, memberId, [memberTier |-> chosen]).members,
     selectedMember |-> selected,
     confirmTierChange |-> pending,
     editingTier |-> NoId]

\* handleTierSave(memberId), lines 626-632, with the newTier chosen in the
\* row editor and the pending confirmTierChange.
handleTierSave(ms, selected, chosen, pending, memberId) ==
    LET m == find(ms, memberId)
    IN  [members |-> ms,
         selectedMember |-> selected,
         confirmTierChange |->
            IF m # NoMember /\ chosen # m.memberTier
            THEN [memberId |-> memberId, newTier |-> chosen, oldTier |-> m.memberTier]
            ELSE pending,
         editingTier |-> NoId]

\* confirmTierUpdate(), lines 634-639.
confirmTierUpdate(ms, selected, pending) ==
    IF pending # NoTierChange
    THEN LET next == handleUpdateMember(ms, selected, pending.memberId,
                                        [memberTier |-> pending.newTier])
         IN  [members |-> next.members,
              selectedMember |-> next.selectedMember,
              confirmTierChange |-> NoTierChange]
    ELSE [members |-> ms, selectedMember |-> selected, confirmTierChange |-> pending]

\* Variant: no lower limit on the candidate.
toggleProgramFreely(prev, program) ==
    IF includes(prev, program)
    THEN SelectSeq(prev, LAMBDA p : p # program)
    ELSE Append(prev, program)

\* toggleProgram(program), lines 647-657: the updater applied to prev.
toggleProgram(prev, program) ==
    IF includes(prev, program)
    THEN IF Len(prev) <= 2 THEN prev ELSE SelectSeq(prev, LAMBDA p : p # program)
    ELSE Append(prev, program)

\* Variant: a subset check in place of the exact match.
isValidSubset(candidate) ==
    \E k \in 1..Len(VALID_PROGRAM_COMBOS) :
        \A i \in 1..Len(candidate) : includes(VALID_PROGRAM_COMBOS[k], candidate[i])

\* Lines 661-664: VALID_PROGRAM_COMBOS.some(combo => combo.length ===
\* selectedPrograms.length && combo.every(p => selectedPrograms.includes(p))).
isValid(candidate) ==
    \E k \in 1..Len(VALID_PROGRAM_COMBOS) :
        LET combo == VALID_PROGRAM_COMBOS[k]
        IN  /\ Len(combo) = Len(candidate)
            /\ \A i \in 1..Len(combo) : includes(candidate, combo[i])

\* handleProgramSave(memberId), lines 659-669, with the selectedPrograms of
\* the editor.
handleProgramSave(ms, selected, candidate, memberId) ==
    LET next == IF isValid(candidate)
                THEN handleUpdateMember(ms, selected, memberId,
                                        [enrolledPrograms |-> candidate])
                ELSE [members |-> ms, selectedMember |-> selected]
    IN  [members |-> next.members,
         selectedMember |-> next.selectedMember,
         editingPrograms |-> NoId]

\* Variant: the attention band starts above 50.
matchesFilterGap(m, f) ==
    LET percentage == getMemberStats(m).percentage
    IN  CASE f = "onTrack"   -> AtLeast(percentage, 70)
          [] f = "attention" -> percentage.num > 50 * percentage.den
                                    /\ ~AtLeast(percentage, 70)
          [] f = "atRisk"    -> ~AtLeast(percentage, 50)
          [] OTHER           -> TRUE

\* The predicate of filteredMembers, lines 672-680.
matchesFilter(m, f) ==
    LET percentage == getMemberStats(m).percentage
    IN  CASE f = "onTrack"   -> AtLeast(percentage, 70)
          [] f = "attention" -> AtLeast(percentage, 50) /\ ~AtLeast(percentage, 70)
          [] f = "atRisk"    -> ~AtLeast(percentage, 50)
          [] OTHER           -> TRUE

\* filteredMembers, lines 672-680, for the filter f.
filteredMembers(ms, f) == SelectSeq(ms, LAMBDA m : matchesFilter(m, f))

\* The counts of the filter buttons, lines 683-685 and 706.
onTrackCount(ms) == Len(filteredMembers(ms, "onTrack"))
attentionCount(ms) == Len(filteredMembers(ms, "attention"))
atRiskCount(ms) == Len(filteredMembers(ms, "atRisk"))

\* What AdminView renders of the filters for a member list: the counts of
\* the four buttons and the rows under each filter.
filterView(ms) ==
    [all |-> Len(ms),
     onTrack |-> onTrackCount(ms),
     attention |-> attentionCount(ms),
     atRisk |-> atRiskCount(ms),
     rows |-> [f \in FilterType |-> filteredMembers(ms, f)]]

\* Variant: the stored item is not read.
initialViewModeDefault(item) == "member"

\* The useState initializer of viewMode, lines 905-908.
initialViewMode(item) ==
    IF item = "admin" \/ item = "member" THEN item ELSE "member"

-----------------------------------------------------------------------------
(* App and AdminView: the state after mounting.                            *)

\* The useState initial values of AdminView, lines 617-624.
AdminViewMounted ==
    /\ editingTier = NoId
    /\ newTier = "Enterprise"
    /\ filter = "all"
    /\ editingPrograms = NoId
    /\ selectedPrograms = <<>>
    /\ confirmTierChange = NoTierChange

\* The member prop of the MemberPortalView that is rendered: currentMember,
\* members[0], in the member view (lines 918 and 939), selectedMember in the
\* detail panel of the admin view (lines 883-894); NoMember when the admin view
\* shows no panel.
mountedMember(mode, ms, selected) ==
    IF mode = "member" THEN ms[1] ELSE selected

\* App is mounted over the stored item: the useState initializers of lines
\* 905-910, AdminView's of lines 617-624, MemberPortalView's of lines 314-321,
\* and the effect of lines 913-915 due after the first render.
AppMounted(item, start) ==
    /\ members = DEMO_MEMBERS(start)
    /\ selectedMember = NoMember
    /\ saved = item
    /\ viewMode = initialViewMode(item)
    /\ effectPending = TRUE
    /\ AdminViewMounted
    /\ member = mountedMember(initialViewMode(item), DEMO_MEMBERS(start), NoMember)
    /\ calculatorValues = NoValues
    /\ touchedSliders = <<>>
    /\ propChanged = FALSE
    /\ lastEvent = NoEvent
    /\ events = 0
    /\ calculatorUsed = FALSE

-----------------------------------------------------------------------------
(* Calculator harness: one call of a pure function of the calculator on    *)
(* an input drawn from a bounded set.                                      *)

\* Months are counted as year * 12 + month.
MonthIndex(date) == date.year * 12 + date.month
DateOfIndex(i) == [year |-> i \div 12, month |-> i % 12]

\* The first month of the cycle: "Membership cycle: April 1 - March 31",
\* "First cycle launches April 1, 2026".
CYCLE_START == [year |-> 2026, month |-> 3]

JoinDates ==
    { DateOfIndex(i) :
        i \in (MonthIndex(CYCLE_START) - MonthsAround)..(MonthIndex(CYCLE_END) + MonthsAround) }

\* The join dates used for whole member records: every third month of the
\* cycle from the first, the last month, and the months after the cycle end.
MemberJoinDates ==
    { d \in JoinDates :
        /\ MonthIndex(d) >= MonthIndex(CYCLE_START)
        /\ \/ (MonthIndex(d) - MonthIndex(CYCLE_START)) % 3 = 0
           \/ MonthIndex(d) >= MonthIndex(CYCLE_END) }

\* Quantities on which the double product loses a tie under one of the
\* tiers: for each capacity that has such quantities, the least one and the
\* least one above twice the capacity.
TieInputs == {63, 117, 207, 261, 455, 1469, 1809, 3843, 13013}

\* Processed quantities for a capacity: the grid, and the quantities of
\* TieInputs on which the double product loses a tie for this capacity.
ProcessedInputs(capacity, annualCommitment) ==
    { (capacity * k) \div ProcGrid : k \in 0..(2 * ProcGrid) }
        \cup { u \in TieInputs : DoubleTieLoss(u, capacity, annualCommitment) }

\* A member record of the harness.
HarnessMember(t, d, c, a, b, o) ==
    [id |-> "0", memberName |-> "Member", memberTier |-> t,
     membershipStartDate |-> d,
     enrolledPrograms |-> VALID_PROGRAM_COMBOS[c],
     programs |-> Programs(a, b, o)]

\* Whole percentages, and the thousandths around the four thresholds.
PercentInputs ==
    { Fraction(n, 1) : n \in 0..PercentMax }
        \cup { Fraction(1000 * b + e, 1000) : b \in {50, 70, 90, 100}, e \in {-1, 0, 1} }

\* Candidates for selectedPrograms.
Candidates == UNION { [1..n -> ProgramType] : n \in 0..CandidateLen }

\* A calculator state of MemberPortalView, and the one after mounting.
CalculatorState(values, touched) ==
    [calculatorValues |-> values, touchedSliders |-> touched]
CalculatorMounted == CalculatorState(NoValues, <<>>)

\* handleSliderChange(p, v) of the render of the member m in the calculator
\* state s (lines 308-311 and 410-474).
changeIn(m, s, p, v) ==
    handleSliderChange(TIERS[m.memberTier], remainingLbs(m), m.enrolledPrograms,
                       s.calculatorValues, s.touchedSliders, p, v)

\* The values the sliders were moved to before the call: the PriorGrid-th
\* parts of the range above 0.
PriorInputs(max) == { (max * k) \div PriorGrid : k \in 1..PriorGrid }

\* The calculator states one slider change of the member m after `states`,
\* and `states`.
afterChange(m, states) ==
    states \cup
    UNION { { changeIn(m, s, m.enrolledPrograms[i], v) :
                v \in PriorInputs(sliderMax(TIERS[m.memberTier], remainingLbs(m),
                                            m.enrolledPrograms[i])) } :
            s \in states, i \in 1..Len(m.enrolledPrograms) }

\* The calculator states a slider change is called in: after mounting and
\* after one or two slider changes.
PriorStates(m) == afterChange(m, afterChange(m, {CalculatorMounted}))

Returned(v) == [done |-> TRUE, value |-> v]

\* The harness runs beside an App that was just mounted, in either reading of
\* the start date; the calls on the seed list and on the members derived from
\* it take the list of that App.
StatsInit ==
    \E start \in DemoStartDates :
        /\ AppMounted(NoId, start)
        /\ ret = Pending
        /\ \/ \E t \in TierNames : \E d \in MemberJoinDates : \E c \in 1..4 :
                 LET tier == TIERS[t]
                 IN  \E a \in ProcessedInputs(tier.binsCapacity, tier.annualCommitment) :
                     \E b \in ProcessedInputs(tier.packagesCapacity, tier.annualCommitment) :
                     \E o \in ProcessedInputs(tier.obsoleteCapacity, tier.annualCommitment) :
                         call = [fn |-> "getMemberStats",
                                 arg |-> HarnessMember(t, d, c, a, b, o)]
           \/ \E m \in PortalMembers :
                 /\ m.membershipStartDate = start
                 /\ call = [fn |-> "getMemberStats", arg |-> m]
           \/ \E d \in JoinDates : \E t \in TierNames :
                 call = [fn |-> "calculateProratedCommitment",
                         arg |-> [joinDate |-> d, fullCommitment |-> TIERS[t].annualCommitment]]
           \/ \E pct \in PercentInputs :
                 call = [fn |-> "getStatus", arg |-> pct]
           \/ \E t \in TierNames : \E d \in MemberJoinDates : \E c \in 1..4 :
                 LET tier == TIERS[t]
                 IN  \E a \in ProcessedInputs(tier.binsCapacity, tier.annualCommitment) :
                     \E b \in ProcessedInputs(tier.packagesCapacity, tier.annualCommitment) :
                     \E o \in ProcessedInputs(tier.obsoleteCapacity, tier.annualCommitment) :
                         call = [fn |-> "filterView",
                                 arg |-> Append(DEMO_MEMBERS(start),
                                                HarnessMember(t, d, c, a, b, o))]
           \/ \E i \in 1..5 : \E candidate \in Candidates :
                 LET ms == DEMO_MEMBERS(start)
                 IN  \E selected \in {NoMember} \cup { ms[j] : j \in 1..Len(ms) } :
                         call = [fn |-> "handleProgramSave",
                                 arg |-> [members |-> ms, selectedMember |-> selected,
                                          selectedPrograms |-> candidate,
                                          memberId |-> ms[i].id]]
           \/ \E m \in PortalMembers :
                 /\ m.membershipStartDate = start
                 /\ remainingLbs(m) > 0
                 /\ \E s \in PriorStates(m) : \E i \in 1..Len(m.enrolledPrograms) :
                        \E v \in SliderInputs(sliderMax(TIERS[m.memberTier], remainingLbs(m),
                                                        m.enrolledPrograms[i])) :
                            call = [fn |-> "handleSliderChange",
                                    arg |-> [member |-> m,
                                             calculatorValues |-> s.calculatorValues,
                                             touchedSliders |-> s.touchedSliders,
                                             changedProgram |-> m.enrolledPrograms[i],
                                             newValue |-> v]]

CallGetMemberStats ==
    /\ call.fn = "getMemberStats"
    /\ ~ret.done
    /\ ret' = Returned(getMemberStats(call.arg))
    /\ UNCHANGED call
    /\ UNCHANGED appVars

CallCalculateProratedCommitment ==
    /\ call.fn = "calculateProratedCommitment"
    /\ ~ret.done
    /\ ret' = Returned(calculateProratedCommitment(call.arg.joinDate, call.arg.fullCommitment))
    /\ UNCHANGED call
    /\ UNCHANGED appVars

CallGetStatus ==
    /\ call.fn = "getStatus"
    /\ ~ret.done
    /\ ret' = Returned(getStatus(call.arg))
    /\ UNCHANGED call
    /\ UNCHANGED appVars

CallHandleProgramSave ==
    /\ call.fn = "handleProgramSave"
    /\ ~ret.done
    /\ ret' = Returned(handleProgramSave(call.arg.members, call.arg.selectedMember,
                                         call.arg.selectedPrograms, call.arg.memberId))
    /\ UNCHANGED call
    /\ UNCHANGED appVars

CallFilterView ==
    /\ call.fn = "filterView"
    /\ ~ret.done
    /\ ret' = Returned(filterView(call.arg))
    /\ UNCHANGED call
    /\ UNCHANGED appVars

\* onChange of a range input (lines 492, 511, 530) in the render of the
\* member with the calculator state of the call.
CallHandleSliderChange ==
    /\ call.fn = "handleSliderChange"
    /\ ~ret.done
    /\ ret' = Returned(changeIn(call.arg.member,
                                CalculatorState(call.arg.calculatorValues,
                                                call.arg.touchedSliders),
                                call.arg.changedProgram, call.arg.newValue))
    /\ UNCHANGED call
    /\ UNCHANGED appVars

StatsNext ==
    \/ CallGetMemberStats
    \/ CallCalculateProratedCommitment
    \/ CallGetStatus
    \/ CallHandleProgramSave
    \/ CallFilterView
    \/ CallHandleSliderChange

StatsSpec == StatsInit /\ [][StatsNext]_vars

-----------------------------------------------------------------------------
(* The slider calculator: claims C1 - C4 and C7, checked under StatsSpec   *)
(* on the calls of handleSliderChange.                                     *)

sliderReturned == call.fn = "handleSliderChange" /\ ret.done
\* The render the call is made in, its arguments and its result.
callTier == TIERS[call.arg.member.memberTier]
callRemaining == remainingLbs(call.arg.member)
callEnrolled == call.arg.member.enrolledPrograms
callEnrolledSet == { callEnrolled[i] : i \in 1..Len(callEnrolled) }
priorValues == call.arg.calculatorValues
priorTouched == call.arg.touchedSliders
resultValues == ret.value.calculatorValues
resultTouched == ret.value.touchedSliders
\* convert(p, u) of the claims, on the slot value of p after the call.
slotLbs(p) == lbsOf(callTier, p, resultValues[p])
Abs(x) == IF x < 0 THEN -x ELSE x
\* Half the lbs of one unit of a program, rounded to a whole lb:
\* 18 for inStore, 1 for mailBack, 0 for obsolete, in every tier.
halfUnitLbs(p) ==
    RoundHalfUp(callTier.annualCommitment, 2 * capacityOf(callTier, p))

\* A slider change of a 2-program member: A is the changed slot, B the other
\* enrolled slot.
twoProgramChanged == sliderReturned /\ Len(callEnrolled) = 2
slotA == call.arg.changedProgram
slotB == CHOOSE p \in callEnrolledSet : p # slotA
\* convert(A, v) for the value v set on slot A.
changedLbs == lbsOf(callTier, call.arg.changedProgram, call.arg.newValue)

\* C1 as stated: after a slider change of a 2-program member,
\* |convert(A,v) + convert(B,result.B) - R| <= 1 and result.B >= 0.
C1_TwoProgramWithinOneLb ==
    twoProgramChanged =>
        /\ Abs(changedLbs + slotLbs(slotB) - callRemaining) <= 1
        /\ resultValues[slotB] >= 0

\* C1 as amended: after a slider change of a 2-program member result.B >= 0;
\* when convert(A,v) <= R the two slots sum to R within half the lbs of one
\* unit of B (18 lbs for inStore, 1 for mailBack, 0 for obsolete); when
\* convert(A,v) > R, result.B = 0 and the sum is convert(A,v).
C1_TwoProgramWithinHalfUnit ==
    twoProgramChanged =>
        /\ resultValues[slotB] >= 0
        /\ changedLbs <= callRemaining =>
              Abs(changedLbs + slotLbs(slotB) - callRemaining) <= halfUnitLbs(slotB)
        /\ changedLbs > callRemaining =>
              resultValues[slotB] = 0 /\ slotLbs(slotB) = 0

\* C1 witness: a 2-program member whose changed slot left part of the target
\* to an inStore slot, which was set to a positive number of boxes that misses
\* the target by more than 1 lb.
C1_Witness ==
    /\ twoProgramChanged
    /\ slotB = "inStore"
    /\ resultValues[slotA] > 0
    /\ resultValues[slotB] > 0
    /\ changedLbs < callRemaining
    /\ Abs(changedLbs + slotLbs(slotB) - callRemaining) > 1

\* A slider change of a 3-program member after which two distinct programs
\* are touched: the two touched slots and the free slot.
threeProgramTwoTouched ==
    sliderReturned /\ Len(callEnrolled) = 3 /\ Len(resultTouched) = 2
touchedLbsNow == slotLbs(resultTouched[1]) + slotLbs(resultTouched[2])
freeSlot == CHOOSE p \in callEnrolledSet : ~includes(resultTouched, p)

\* C2 as stated: for a 3-program member with two distinct touched programs,
\* |convert(p1,v1) + convert(p2,v2) + convert(free,result.free) - R| <= 1.
C2_ThreeProgramWithinOneLb ==
    threeProgramTwoTouched =>
        Abs(touchedLbsNow + slotLbs(freeSlot) - callRemaining) <= 1

\* C2 as amended: for a 3-program member with two distinct touched programs,
\* when convert(p1,v1) + convert(p2,v2) <= R the three slots sum to R within
\* half the lbs of one unit of the free program (18 lbs for inStore, 1 for
\* mailBack, 0 for obsolete); when the two touched slots exceed R the free
\* slot is 0.
C2_ThreeProgramWithinHalfUnit ==
    threeProgramTwoTouched =>
        /\ touchedLbsNow <= callRemaining =>
              Abs(touchedLbsNow + slotLbs(freeSlot) - callRemaining)
                  <= halfUnitLbs(freeSlot)
        /\ touchedLbsNow > callRemaining =>
              resultValues[freeSlot] = 0 /\ slotLbs(freeSlot) = 0

\* C2 witness: two touched slots with positive values leave part of the target
\* to the free slot, which got a positive value.
C2_Witness ==
    /\ threeProgramTwoTouched
    /\ resultValues[resultTouched[1]] > 0
    /\ resultValues[resultTouched[2]] > 0
    /\ touchedLbsNow < callRemaining
    /\ resultValues[freeSlot] > 0

\* C3: for a 3-program member, every slider change after which the history
\* holds two programs sets the changed slot to newValue, keeps the other
\* touched slot, and sets the free slot to
\* invert(free, max(0, R - (convert(changed,newValue) + convert(other,lastKnown)))).
C3_FreeSlotFillsGap ==
    threeProgramTwoTouched =>
        LET tier == callTier
            R == callRemaining
            p == call.arg.changedProgram
            v == call.arg.newValue
            other == resultTouched[2]
            free == CHOOSE q \in callEnrolledSet : q # p /\ q # other
            used == lbsOf(tier, p, v) + lbsOf(tier, other, priorValues[other])
        IN  /\ resultTouched[1] = p
            /\ other # p
            /\ includes(priorTouched, other)
            /\ resultValues[p] = v
            /\ resultValues[other] = priorValues[other]
            /\ resultValues[free] = unitsOf(tier, free, Max(0, R - used))

\* C3 witness: two programs were touched and the free slot is changed: it
\* enters the history, the older touched program becomes the free slot and
\* gets a computed positive value, the other touched slot keeps its positive
\* value.
C3_Witness ==
    /\ threeProgramTwoTouched
    /\ Len(priorTouched) = 2
    /\ ~includes(priorTouched, call.arg.changedProgram)
    /\ freeSlot = priorTouched[2]
    /\ resultValues[freeSlot] > 0
    /\ resultValues[freeSlot] # priorValues[freeSlot]
    /\ resultValues[resultTouched[2]] > 0
    /\ resultValues[resultTouched[1]] > 0

\* C4: for a 3-program member, a slider change made while the history is empty,
\* and every change after which fewer than two programs are touched, updates
\* the changed slot only.
C4_FirstTouchChangesOneSlot ==
    (sliderReturned /\ Len(callEnrolled) = 3
        /\ (priorTouched = <<>> \/ Len(resultTouched) < 2)) =>
        /\ Len(resultTouched) = 1
        /\ resultValues = [priorValues EXCEPT ![call.arg.changedProgram] = call.arg.newValue]

\* C4 witness: a 3-program member whose first change set one slot to a positive
\* value, the other two slots still at their initial 0.
C4_Witness ==
    /\ sliderReturned
    /\ Len(callEnrolled) = 3
    /\ priorTouched = <<>>
    /\ Len(resultTouched) = 1
    /\ resultValues[resultTouched[1]] > 0
    /\ \A q \in ProgramType : q # resultTouched[1] => resultValues[q] = 0

\* Prior calculator states a second run may have been in: every enrolled slot
\* at 0 or at its slider's max, any history over the enrolled programs.
AltValues ==
    LET top == [q \in ProgramType |->
                   IF q \in callEnrolledSet
                   THEN sliderMax(callTier, callRemaining, q) ELSE 0]
    IN  { [q \in ProgramType |-> IF q \in atTop THEN top[q] ELSE 0] :
            atTop \in SUBSET callEnrolledSet }
AltTouched ==
    { t \in UNION { [1..n -> callEnrolledSet] : n \in 0..2 } :
        \A i, j \in 1..Len(t) : i # j => t[i] # t[j] }

\* C7: for a 2-program member the enrolled slot values after a slider change
\* depend on (tier, R, changed program, new value) only: the change applied to
\* the prior state of the call and to any other prior slot values and history
\* gives the same enrolled slot values.
C7_TwoProgramIgnoresPrior ==
    twoProgramChanged =>
        \A values \in AltValues : \A touched \in AltTouched : \A q \in callEnrolledSet :
            changeIn(call.arg.member, CalculatorState(values, touched),
                     call.arg.changedProgram, call.arg.newValue).calculatorValues[q]
                = resultValues[q]

\* C7 witness: a change of a 2-program member whose calculator already held
\* two touched programs and two positive slot values, after which the other
\* slot holds a different positive value.
C7_Witness ==
    /\ twoProgramChanged
    /\ Len(priorTouched) = 2
    /\ \A q \in callEnrolledSet : priorValues[q] > 0
    /\ resultValues[slotB] > 0
    /\ resultValues[slotB] # priorValues[slotB]

-----------------------------------------------------------------------------
(* The commitment calculator: claims C8 - C10, checked under StatsSpec.    *)

statsReturned == call.fn = "getMemberStats" /\ ret.done
\* The lbs field of the returned stats for a program.
lbsField(stats, prog) ==
    CASE prog = "inStore"  -> stats.inStoreLbs
      [] prog = "mailBack" -> stats.mailBackLbs
      [] prog = "obsolete" -> stats.obsoleteLbs
\* lbs is a whole number within half a lb of processed / capacity * commitment.
\* (The whole multiples of the capacity are taken out of both sides.)
isRounded(lbs, processed, capacity, commitment) ==
    LET rest == lbs - (processed \div capacity) * commitment
        d == rest * capacity - (processed % capacity) * commitment
    IN  2 * Abs(d) <= capacity

\* C8: getMemberStats counts only enrolled programs: a program that is not
\* enrolled contributes 0 whatever its processed quantity, an enrolled program
\* contributes processed / capacity * annualCommitment rounded to a whole lb,
\* with the full annual commitment, and totalLbs is the sum of the three
\* rounded contributions.
C8_OnlyEnrolledProgramsCount ==
    statsReturned =>
        LET m == call.arg
            stats == ret.value
            tier == TIERS[m.memberTier]
        IN  /\ \A prog \in ProgramType :
                  IF \E i \in 1..Len(m.enrolledPrograms) : m.enrolledPrograms[i] = prog
                  THEN isRounded(lbsField(stats, prog), m.programs[prog].processed,
                                 capacityOf(tier, prog), tier.annualCommitment)
                  ELSE lbsField(stats, prog) = 0
            /\ stats.totalLbs = stats.inStoreLbs + stats.mailBackLbs + stats.obsoleteLbs

\* C8 witness: stats of a pro-rated 2-program member whose third program has a
\* positive processed quantity and contributes 0, while the enrolled ones
\* contribute.
C8_Witness ==
    /\ statsReturned
    /\ ret.value.monthsInCycle < TOTAL_CYCLE_MONTHS
    /\ Len(call.arg.enrolledPrograms) = 2
    /\ \E prog \in ProgramType :
          /\ \A i \in 1..2 : call.arg.enrolledPrograms[i] # prog
          /\ call.arg.programs[prog].processed > 0
          /\ lbsField(ret.value, prog) = 0
    /\ ret.value.totalLbs > 0

proratedReturned == call.fn = "calculateProratedCommitment" /\ ret.done
\* The calendar months from the month of `date` through the cycle-end month.
monthsThroughCycleEnd(date) ==
    Cardinality({ i \in MonthIndex(date)..MonthIndex(CYCLE_END) : TRUE })

\* C9: for a join date not later than the cycle end, monthsInCycle is the
\* number of calendar months from the start month through the cycle-end
\* month, capped at 12; a start in March 2027 gives monthsInCycle = 1 and
\* proratedCommitment = round(annualCommitment / 12); a start in or before
\* April 2026 gives monthsInCycle = 12 and proratedCommitment = annualCommitment.
C9_ProRation ==
    (proratedReturned /\ MonthIndex(call.arg.joinDate) <= MonthIndex(CYCLE_END)) =>
        LET joinDate == call.arg.joinDate
            full == call.arg.fullCommitment
            got == ret.value
            counted == monthsThroughCycleEnd(joinDate)
        IN  /\ got.monthsInCycle = (IF counted < 12 THEN counted ELSE 12)
            /\ got.monthsInCycle <= 12
            /\ joinDate = [year |-> 2027, month |-> 2] =>
                  /\ got.monthsInCycle = 1
                  /\ 2 * Abs(12 * got.proratedCommitment - full) <= 12
            /\ MonthIndex(joinDate) <= MonthIndex([year |-> 2026, month |-> 3]) =>
                  /\ got.monthsInCycle = 12
                  /\ got.proratedCommitment = full

\* C9 witness: the call for a start in March 2027 returned monthsInCycle = 1.
C9_Witness ==
    /\ proratedReturned
    /\ call.arg.joinDate = [year |-> 2027, month |-> 2]
    /\ ret.value.monthsInCycle = 1
    /\ ret.value.proratedCommitment < call.arg.fullCommitment

statusReturned == call.fn = "getStatus" /\ ret.done
\* lo <= percentage < hi, for whole lo and hi.
inBand(pct, lo, hi) == pct.num >= lo * pct.den /\ pct.num < hi * pct.den

\* C10: every percentage gets exactly the label of its band: >= 100
\* 'Exceeded', [90, 100) 'Reached', [70, 90) 'On Track', [50, 70) 'Needs
\* Attention', below 50 'At Risk'.
C10_StatusBands ==
    statusReturned =>
        LET pct == call.arg
            label == ret.value.label
        IN  /\ label \in {"Exceeded", "Reached", "On Track", "Needs Attention", "At Risk"}
            /\ label = "Exceeded" <=> pct.num >= 100 * pct.den
            /\ label = "Reached" <=> inBand(pct, 90, 100)
            /\ label = "On Track" <=> inBand(pct, 70, 90)
            /\ label = "Needs Attention" <=> inBand(pct, 50, 70)
            /\ label = "At Risk" <=> pct.num < 50 * pct.den

\* C10 witness: the percentage exactly 90 was classified 'Reached'.
C10_Witness ==
    /\ statusReturned
    /\ call.arg.num = 90 * call.arg.den
    /\ ret.value.label = "Reached"

-----------------------------------------------------------------------------
(* The commitment calculator: claims C11 - C13, checked under StatsSpec.   *)

\* C11: for every member and every start date, a start date later than the
\* cycle end included, the returned monthsInCycle, proratedCommitment,
\* totalLbs and percentage are all non-negative, and the percentage is 0 when
\* the pro-rated commitment is 0.
C11_ResultsNonNegative ==
    statsReturned =>
        LET stats == ret.value
        IN  /\ stats.monthsInCycle >= 0
            /\ stats.proratedCommitment >= 0
            /\ stats.totalLbs >= 0
            /\ stats.percentage.num >= 0
            /\ stats.proratedCommitment = 0 => stats.percentage.num = 0

\* C11 witness: the stats of a member who started in May 2027, after the
\* cycle end, were returned with a negative monthsInCycle and a negative
\* proratedCommitment (and the percentage 0).
C11_Witness ==
    /\ statsReturned
    /\ call.arg.membershipStartDate = [year |-> 2027, month |-> 4]
    /\ ret.value.monthsInCycle = -1
    /\ ret.value.proratedCommitment < 0
    /\ ret.value.percentage.num = 0

\* The member of the call is enrolled in prog, has processed exactly the
\* tier's capacity for it, and 0 for every other enrolled program.
aloneAtCapacity(m, prog) ==
    /\ includes(m.enrolledPrograms, prog)
    /\ m.programs[prog].processed = capacityOf(TIERS[m.memberTier], prog)
    /\ \A q \in ProgramType \ {prog} :
          includes(m.enrolledPrograms, q) => m.programs[q].processed = 0

\* C12: either/or capacities: for every tier and every program, a member with
\* a full 12 months whose processed quantity for one enrolled program equals
\* the tier's capacity for it, the other enrolled programs having processed
\* 0, has totalLbs = annualCommitment, percentage = 100 and status
\* 'Exceeded'.
C12_EitherOrCapacity ==
    statsReturned =>
        LET m == call.arg
            stats == ret.value
        IN  \A prog \in ProgramType :
                (aloneAtCapacity(m, prog) /\ stats.monthsInCycle = TOTAL_CYCLE_MONTHS) =>
                    /\ stats.totalLbs = TIERS[m.memberTier].annualCommitment
                    /\ stats.percentage.num = 100 * stats.percentage.den
                    /\ stats.status.label = "Exceeded"

\* C12 witness: an Indie member with a full 12 months, enrolled in mail-back
\* and obsolete, with 300 lbs of obsolete inventory (the Indie capacity), no
\* packages and a positive box count that does not count, got 70 lbs and
\* 'Exceeded'.
C12_Witness ==
    /\ statsReturned
    /\ call.arg.memberTier = "Indie"
    /\ call.arg.enrolledPrograms = <<"mailBack", "obsolete">>
    /\ call.arg.programs.inStore.processed > 0
    /\ aloneAtCapacity(call.arg, "obsolete")
    /\ ret.value.monthsInCycle = TOTAL_CYCLE_MONTHS
    /\ ret.value.totalLbs = 70
    /\ ret.value.status.label = "Exceeded"

\* The member of the call is the end-to-end example: tier Established, all
\* three programs enrolled, processed 15 / 200 / 1500.
isExampleMember(m) ==
    /\ m.memberTier = "Established"
    /\ { m.enrolledPrograms[i] : i \in 1..Len(m.enrolledPrograms) } = ProgramType
    /\ m.programs = Programs(15, 200, 1500)

\* C13: for tier Established, all three programs enrolled, processed
\* 15 / 200 / 1500 and a full 12 months, getMemberStats yields the weights
\* 525, 389 and 404, totalLbs 1318, proratedCommitment 1750, a percentage
\* between 75 and 76 and status 'On Track'; the seed member with id '2' is
\* such a member, in every time zone.
C13_EndToEndExample ==
    /\ \A start \in DemoStartDates :
          /\ isExampleMember(DEMO_MEMBERS(start)[2])
          /\ DEMO_MEMBERS(start)[2].id = "2"
          /\ getMemberStats(DEMO_MEMBERS(start)[2]).monthsInCycle = TOTAL_CYCLE_MONTHS
    /\ (statsReturned /\ isExampleMember(call.arg)
            /\ ret.value.monthsInCycle = TOTAL_CYCLE_MONTHS) =>
          LET stats == ret.value
          IN  /\ stats.inStoreLbs = 525
              /\ stats.mailBackLbs = 389
              /\ stats.obsoleteLbs = 404
              /\ stats.totalLbs = 1318
              /\ stats.proratedCommitment = 1750
              /\ inBand(stats.percentage, 75, 76)
              /\ stats.status.label = "On Track"

\* C13 witness: the stats of the seed member '2' were returned with totalLbs
\* 1318.
C13_Witness ==
    /\ statsReturned
    /\ call.arg = DEMO_MEMBERS(CYCLE_START)[2]
    /\ ret.value.totalLbs = 1318
    /\ ret.value.status.label = "On Track"

-----------------------------------------------------------------------------
(* Enrollment and tier editing: claim C14, checked under StatsSpec.        *)

saveReturned == call.fn = "handleProgramSave" /\ ret.done
\* The programs of a list, as a set.
asSet(programs) == { programs[i] : i \in 1..Len(programs) }
\* The four allowed combinations: the full triple and the three pairs.
AllowedSets == { S \in SUBSET ProgramType : Cardinality(S) >= 2 }
\* The members with the enrolled programs of the member `id` replaced.
withEnrollment(ms, id, programs) ==
    [i \in 1..Len(ms) |->
        IF ms[i].id = id THEN [ms[i] EXCEPT !.enrolledPrograms = programs] ELSE ms[i]]

\* C14: saving a candidate (a list of distinct programs, in any order) writes
\* it to the member if and only if its set of programs is one of the four
\* allowed combinations; for any other candidate the members and the selected
\* member are returned unchanged; in both cases the editor is closed.
C14_SaveAppliesOnlyAllowedSets ==
    (saveReturned /\ Cardinality(asSet(call.arg.selectedPrograms))
                        = Len(call.arg.selectedPrograms)) =>
        LET arg == call.arg
            got == ret.value
        IN  /\ got.editingPrograms = NoId
            /\ IF asSet(arg.selectedPrograms) \in AllowedSets
               THEN /\ got.members
                         = withEnrollment(arg.members, arg.memberId, arg.selectedPrograms)
                    /\ find(got.members, arg.memberId).enrolledPrograms
                         = arg.selectedPrograms
               ELSE /\ got.members = arg.members
                    /\ got.selectedMember = arg.selectedMember
                    /\ find(got.members, arg.memberId).enrolledPrograms
                         # arg.selectedPrograms

\* C14 witness: the candidate [inStore] was saved for member '1' while that
\* member was selected; the editor closed and nothing changed.
C14_Witness ==
    /\ saveReturned
    /\ call.arg.memberId = "1"
    /\ call.arg.selectedMember = call.arg.members[1]
    /\ call.arg.selectedPrograms = <<"inStore">>
    /\ ret.value.editingPrograms = NoId
    /\ ret.value.members = call.arg.members

-----------------------------------------------------------------------------
(* The admin filters: claim C21, checked under StatsSpec.                  *)

filtersReturned == call.fn = "filterView" /\ ret.done
Buckets == {"onTrack", "attention", "atRisk"}
\* The member is a row under the filter f.
isRow(rows, m) == \E i \in 1..Len(rows) : rows[i] = m

\* C21: the three buckets partition the members: every member is a row of
\* exactly one of onTrack, attention and atRisk, so the three counts sum to
\* the number of members; a member is in onTrack iff its status is
\* 'Exceeded', 'Reached' or 'On Track', in attention iff it is 'Needs
\* Attention', and in atRisk iff it is 'At Risk'.
C21_FiltersPartitionByStatus ==
    filtersReturned =>
        LET ms == call.arg
            view == ret.value
        IN  /\ view.onTrack + view.attention + view.atRisk = Len(ms)
            /\ view.all = Len(ms)
            /\ \A f \in Buckets :
                  Len(view.rows[f])
                      = (CASE f = "onTrack" -> view.onTrack
                           [] f = "attention" -> view.attention
                           [] f = "atRisk" -> view.atRisk)
            /\ \A i \in 1..Len(ms) :
                  LET label == getMemberStats(ms[i]).status.label
                  IN  /\ Cardinality({ f \in Buckets : isRow(view.rows[f], ms[i]) }) = 1
                      /\ isRow(view.rows["onTrack"], ms[i])
                            <=> label \in {"Exceeded", "Reached", "On Track"}
                      /\ isRow(view.rows["attention"], ms[i])
                            <=> label = "Needs Attention"
                      /\ isRow(view.rows["atRisk"], ms[i]) <=> label = "At Risk"

\* C21 witness: the filters of a list whose last member stands at exactly
\* 50 percent: that member is a row of attention only, and each of the three
\* buckets has a member.
C21_Witness ==
    /\ filtersReturned
    /\ LET m == call.arg[Len(call.arg)]
           pct == getMemberStats(m).percentage
       IN  /\ pct.num = 50 * pct.den
           /\ isRow(ret.value.rows["attention"], m)
           /\ ~isRow(ret.value.rows["onTrack"], m)
           /\ ~isRow(ret.value.rows["atRisk"], m)
    /\ ret.value.onTrack > 0
    /\ ret.value.attention > 1
    /\ ret.value.atRisk > 0

-----------------------------------------------------------------------------
(* App and AdminView: the state machine.                                   *)

\* An event of the App: its kind and the id of the member of its row.
AppEvent(kind, id) == [kind |-> kind, id |-> id]

\* App is mounted over what localStorage holds, in one of the time zones.
AppInit ==
    /\ \E item \in StoredItems : \E start \in DemoStartDates : AppMounted(item, start)
    /\ call = NoCall
    /\ ret = Pending

\* The MemberPortalView after a step of App or AdminView.  The view rendered
\* at the same place of the same view mode keeps its state while its member
\* prop changes (lines 894 and 939 give it no key); a view that is rendered
\* anew starts from the useState initial values of lines 314-321.
AppFrame ==
    /\ member' = mountedMember(viewMode', members', selectedMember')
    /\ IF viewMode' = viewMode /\ member # NoMember /\ member' # NoMember
       THEN /\ UNCHANGED <<calculatorValues, touchedSliders>>
            /\ propChanged' = (propChanged \/ member' # member)
       ELSE /\ calculatorValues' = NoValues
            /\ touchedSliders' = <<>>
            /\ propChanged' = FALSE
    /\ UNCHANGED <<call, ret, calculatorUsed>>

\* The MemberPortalView after the page is loaded again: rendered anew.
MountFrame ==
    /\ member' = mountedMember(viewMode', members', selectedMember')
    /\ calculatorValues' = NoValues
    /\ touchedSliders' = <<>>
    /\ propChanged' = FALSE
    /\ UNCHANGED <<call, ret, calculatorUsed>>

\* An event is handled after the effects of the previous render have run.
Ready ==
    /\ ~effectPending
    /\ events < (IF calculatorUsed THEN MaxEventsWithCalculator ELSE MaxEvents)
\* A calculator event is handled likewise, within the bound of such behaviours.
CalculatorReady == Ready /\ events < MaxEventsWithCalculator
\* The row of members[i] is rendered by AdminView (filteredMembers.map).
RowShown(i) == viewMode = "admin" /\ matchesFilter(members[i], filter)

\* useEffect, lines 913-915.
RunEffect ==
    /\ effectPending
    /\ saved' = viewMode
    /\ effectPending' = FALSE
    /\ lastEvent' = AppEvent("effect", NoId)
    /\ UNCHANGED <<members, selectedMember, viewMode, editingTier, newTier, filter,
                   editingPrograms, selectedPrograms, confirmTierChange, events>>
    /\ AppFrame

\* Header: setViewMode(v), lines 286 and 293. The other view is rendered, so
\* AdminView is unmounted or mounted anew with its initial state.
SetViewMode(v) ==
    /\ Ready
    /\ v # viewMode
    /\ viewMode' = v
    /\ effectPending' = TRUE
    /\ editingTier' = NoId
    /\ newTier' = "Enterprise"
    /\ filter' = "all"
    /\ editingPrograms' = NoId
    /\ selectedPrograms' = <<>>
    /\ confirmTierChange' = NoTierChange
    /\ events' = events + 1
    /\ lastEvent' = AppEvent("setViewMode", NoId)
    /\ UNCHANGED <<members, selectedMember, saved>>
    /\ AppFrame

\* The page is loaded again: App is mounted anew over the stored item.
Restart ==
    /\ Ready
    /\ members' = DEMO_MEMBERS(members[1].membershipStartDate)
    /\ selectedMember' = NoMember
    /\ viewMode' = initialViewMode(saved)
    /\ effectPending' = TRUE
    /\ editingTier' = NoId
    /\ newTier' = "Enterprise"
    /\ filter' = "all"
    /\ editingPrograms' = NoId
    /\ selectedPrograms' = <<>>
    /\ confirmTierChange' = NoTierChange
    /\ events' = events + 1
    /\ lastEvent' = AppEvent("restart", NoId)
    /\ UNCHANGED saved
    /\ MountFrame

\* setFilter(f), lines 701-725.
SetFilter(f) ==
    /\ Ready
    /\ viewMode = "admin"
    /\ f # filter
    /\ filter' = f
    /\ events' = events + 1
    /\ lastEvent' = AppEvent("setFilter", NoId)
    /\ UNCHANGED <<members, selectedMember, viewMode, saved, effectPending, editingTier,
                   newTier, editingPrograms, selectedPrograms, confirmTierChange>>
    /\ AppFrame

\* The member name button, line 763.
SelectMember(i) ==
    /\ Ready
    /\ RowShown(i)
    /\ selectedMember' = members[i]
    /\ events' = events + 1
    /\ lastEvent' = AppEvent("select", members[i].id)
    /\ UNCHANGED <<members, viewMode, saved, effectPending, editingTier, newTier, filter,
                   editingPrograms, selectedPrograms, confirmTierChange>>
    /\ AppFrame

\* The backdrop and the close button of the detail panel, lines 885 and 889.
DeselectMember ==
    /\ Ready
    /\ viewMode = "admin"
    /\ selectedMember # NoMember
    /\ selectedMember' = NoMember
    /\ events' = events + 1
    /\ lastEvent' = AppEvent("deselect", NoId)
    /\ UNCHANGED <<members, viewMode, saved, effectPending, editingTier, newTier, filter,
                   editingPrograms, selectedPrograms, confirmTierChange>>
    /\ AppFrame

\* The tier button of a row, line 786.
TierEdit(i) ==
    /\ Ready
    /\ RowShown(i)
    /\ editingTier # members[i].id
    /\ editingTier' = members[i].id
    /\ newTier' = members[i].memberTier
    /\ events' = events + 1
    /\ lastEvent' = AppEvent("tierEdit", members[i].id)
    /\ UNCHANGED <<members, selectedMember, viewMode, saved, effectPending, filter,
                   editingPrograms, selectedPrograms, confirmTierChange>>
    /\ AppFrame

\* onChange of the tier select of the row editor, line 774.
TierSelect(i, t) ==
    /\ Ready
    /\ RowShown(i)
    /\ editingTier = members[i].id
    /\ t # newTier
    /\ newTier' = t
    /\ events' = events + 1
    /\ lastEvent' = AppEvent("tierSelect", members[i].id)
    /\ UNCHANGED <<members, selectedMember, viewMode, saved, effectPending, editingTier,
                   filter, editingPrograms, selectedPrograms, confirmTierChange>>
    /\ AppFrame

\* Save of the row editor, line 781.
TierSave(i) ==
    /\ Ready
    /\ RowShown(i)
    /\ editingTier = members[i].id
    /\ LET next == handleTierSave(members, selectedMember, newTier, confirmTierChange,
                                  members[i].id)
       IN  /\ members' = next.members
           /\ selectedMember' = next.selectedMember
           /\ confirmTierChange' = next.confirmTierChange
           /\ editingTier' = next.editingTier
    /\ events' = events + 1
    /\ lastEvent' = AppEvent("tierSave", members[i].id)
    /\ UNCHANGED <<viewMode, saved, effectPending, newTier, filter, editingPrograms,
                   selectedPrograms>>
    /\ AppFrame

\* Cancel of the row editor, line 782.
TierCancel(i) ==
    /\ Ready
    /\ RowShown(i)
    /\ editingTier = members[i].id
    /\ editingTier' = NoId
    /\ events' = events + 1
    /\ lastEvent' = AppEvent("tierCancel", members[i].id)
    /\ UNCHANGED <<members, selectedMember, viewMode, saved, effectPending, newTier,
                   filter, editingPrograms, selectedPrograms, confirmTierChange>>
    /\ AppFrame

\* Confirm of the tier change dialog, line 876.
ConfirmTier ==
    /\ Ready
    /\ viewMode = "admin"
    /\ confirmTierChange # NoTierChange
    /\ LET next == confirmTierUpdate(members, selectedMember, confirmTierChange)
       IN  /\ members' = next.members
           /\ selectedMember' = next.selectedMember
           /\ confirmTierChange' = next.confirmTierChange
    /\ events' = events + 1
    /\ lastEvent' = AppEvent("confirmTier", confirmTierChange.memberId)
    /\ UNCHANGED <<viewMode, saved, effectPending, editingTier, newTier, filter,
                   editingPrograms, selectedPrograms>>
    /\ AppFrame

\* Cancel of the tier change dialog, line 875.
CancelTierChange ==
    /\ Ready
    /\ viewMode = "admin"
    /\ confirmTierChange # NoTierChange
    /\ confirmTierChange' = NoTierChange
    /\ events' = events + 1
    /\ lastEvent' = AppEvent("cancelTierChange", confirmTierChange.memberId)
    /\ UNCHANGED <<members, selectedMember, viewMode, saved, effectPending, editingTier,
                   newTier, filter, editingPrograms, selectedPrograms>>
    /\ AppFrame

\* The programs button of a row, line 816: handleProgramEdit, lines 642-645.
ProgramEdit(i) ==
    /\ Ready
    /\ RowShown(i)
    /\ editingPrograms # members[i].id
    /\ editingPrograms' = members[i].id
    /\ selectedPrograms' = members[i].enrolledPrograms
    /\ events' = events + 1
    /\ lastEvent' = AppEvent("programEdit", members[i].id)
    /\ UNCHANGED <<members, selectedMember, viewMode, saved, effectPending, editingTier,
                   newTier, filter, confirmTierChange>>
    /\ AppFrame

\* A program button of the row editor, line 800.
ProgramToggle(i, program) ==
    /\ Ready
    /\ RowShown(i)
    /\ editingPrograms = members[i].id
    /\ selectedPrograms' = toggleProgram(selectedPrograms, program)
    /\ events' = events + 1
    /\ lastEvent' = [kind |-> "programToggle", id |-> members[i].id, program |-> program]
    /\ UNCHANGED <<members, selectedMember, viewMode, saved, effectPending, editingTier,
                   newTier, filter, editingPrograms, confirmTierChange>>
    /\ AppFrame

\* Save of the programs editor, line 811.
ProgramSave(i) ==
    /\ Ready
    /\ RowShown(i)
    /\ editingPrograms = members[i].id
    /\ LET next == handleProgramSave(members, selectedMember, selectedPrograms,
                                     members[i].id)
       IN  /\ members' = next.members
           /\ selectedMember' = next.selectedMember
           /\ editingPrograms' = next.editingPrograms
    /\ events' = events + 1
    /\ lastEvent' = AppEvent("programSave", members[i].id)
    /\ UNCHANGED <<viewMode, saved, effectPending, editingTier, newTier, filter,
                   selectedPrograms, confirmTierChange>>
    /\ AppFrame

\* Cancel of the programs editor, line 812.
ProgramCancel(i) ==
    /\ Ready
    /\ RowShown(i)
    /\ editingPrograms = members[i].id
    /\ editingPrograms' = NoId
    /\ events' = events + 1
    /\ lastEvent' = AppEvent("programCancel", members[i].id)
    /\ UNCHANGED <<members, selectedMember, viewMode, saved, effectPending, editingTier,
                   newTier, filter, selectedPrograms, confirmTierChange>>
    /\ AppFrame

\* onChange of the range input of an enrolled program (lines 492, 511, 530);
\* the calculator is rendered only while remainingLbs > 0 (line 384).
SliderChange(tier, remaining, changedProgram, newValue) ==
    /\ remaining > 0
    /\ includes(member.enrolledPrograms, changedProgram)
    /\ newValue \in SliderInputs(sliderMax(tier, remaining, changedProgram))
    /\ LET next == handleSliderChange(tier, remaining, member.enrolledPrograms,
                                      calculatorValues, touchedSliders,
                                      changedProgram, newValue)
       IN  /\ calculatorValues' = next.calculatorValues
           /\ touchedSliders' = next.touchedSliders
    /\ events' = events + 1
    /\ calculatorUsed' = TRUE
    /\ lastEvent' = ChangeEvent(changedProgram, newValue)
    /\ UNCHANGED <<member, propChanged, call, ret>>
    /\ UNCHANGED <<members, selectedMember, viewMode, saved, effectPending, editingTier,
                   newTier, filter, editingPrograms, selectedPrograms, confirmTierChange>>

ChangeSlider ==
    /\ CalculatorReady
    /\ member # NoMember
    /\ LET tier == TIERS[member.memberTier]
           remaining == remainingLbs(member)
       IN  \E p \in ProgramType :
               \E v \in SliderInputs(sliderMax(tier, remaining, p)) :
                   SliderChange(tier, remaining, p, v)

\* "Reset calculator", lines 545-548.
ResetCalculator ==
    /\ CalculatorReady
    /\ member # NoMember
    /\ remainingLbs(member) > 0
    /\ calculatorValues' = NoValues
    /\ touchedSliders' = <<>>
    /\ events' = events + 1
    /\ calculatorUsed' = TRUE
    /\ lastEvent' = ResetEvent
    /\ UNCHANGED <<member, propChanged, call, ret>>
    /\ UNCHANGED <<members, selectedMember, viewMode, saved, effectPending, editingTier,
                   newTier, filter, editingPrograms, selectedPrograms, confirmTierChange>>

AppNext ==
    \/ RunEffect
    \/ \E v \in ViewModes : SetViewMode(v)
    \/ Restart
    \/ \E f \in FilterType : SetFilter(f)
    \/ \E i \in 1..Len(members) : SelectMember(i)
    \/ DeselectMember
    \/ \E i \in 1..Len(members) : TierEdit(i)
    \/ \E i \in 1..Len(members) : \E t \in TierNames : TierSelect(i, t)
    \/ \E i \in 1..Len(members) : TierSave(i)
    \/ \E i \in 1..Len(members) : TierCancel(i)
    \/ ConfirmTier
    \/ CancelTierChange
    \/ \E i \in 1..Len(members) : ProgramEdit(i)
    \/ \E i \in 1..Len(members) : \E program \in ProgramType : ProgramToggle(i, program)
    \/ \E i \in 1..Len(members) : ProgramSave(i)
    \/ \E i \in 1..Len(members) : ProgramCancel(i)
    \/ ChangeSlider
    \/ ResetCalculator

AppSpec == AppInit /\ [][AppNext]_vars

-----------------------------------------------------------------------------
(* Enrollment and tier editing: claims C15 - C19, checked under AppSpec.   *)

\* A list of 2 or 3 distinct programs.
isAllowedCombo(programs) ==
    /\ asSet(programs) \in AllowedSets
    /\ Len(programs) = Cardinality(asSet(programs))

EnrollmentsAllowed ==
    /\ \A i \in 1..Len(members) : isAllowedCombo(members[i].enrolledPrograms)
    /\ editingPrograms # NoId => isAllowedCombo(selectedPrograms)

\* C15: in every state reachable from the seed data by admin actions, every
\* member's enrollment is one of the four allowed combinations (2 or 3
\* distinct programs), the candidate under edit has at least 2 programs, and
\* toggling off a program of a candidate of size 2 changes nothing.
C15_EnrollmentAlwaysAllowed ==
    /\ []EnrollmentsAllowed
    /\ [][(lastEvent'.kind = "programToggle"
            /\ Len(selectedPrograms) = 2
            /\ lastEvent'.program \in asSet(selectedPrograms))
          => selectedPrograms' = selectedPrograms]_vars

\* C15 witness: a program of a candidate of size 2 was toggled and the
\* candidate still holds it.
C15_Witness ==
    /\ lastEvent.kind = "programToggle"
    /\ editingPrograms = lastEvent.id
    /\ Len(selectedPrograms) = 2
    /\ lastEvent.program \in asSet(selectedPrograms)

\* The tiers of the members, in list order.
tiersOf(ms) == [i \in 1..Len(ms) |-> ms[i].memberTier]

\* The stats of m are computed with the capacities and the annual commitment
\* of the tier t.
statsUseTier(m, t) ==
    LET stats == getMemberStats(m)
    IN  /\ stats.tier = TIERS[t]
        /\ stats.proratedCommitment
              = calculateProratedCommitment(m.membershipStartDate,
                                            TIERS[t].annualCommitment).proratedCommitment
        /\ \A prog \in asSet(m.enrolledPrograms) :
              lbsField(stats, prog)
                  = calculateLbsContributed(m.programs[prog].processed,
                                            capacityOf(TIERS[t], prog),
                                            TIERS[t].annualCommitment)

\* C16: saving a tier in the row editor leaves every member's tier unchanged
\* and, when the tier differs from the member's, only records the pending
\* change; Confirm writes the pending new tier to the member, whose stats are
\* from then on computed with the new tier; cancelling the editor or the
\* dialog leaves every tier unchanged; within a session no other step changes
\* a tier.
C16_TierChangeOnlyOnConfirm ==
    [][ /\ lastEvent'.kind = "tierSave" =>
              /\ tiersOf(members') = tiersOf(members)
              /\ newTier # find(members, lastEvent'.id).memberTier =>
                    confirmTierChange'
                        = [memberId |-> lastEvent'.id, newTier |-> newTier,
                           oldTier |-> find(members, lastEvent'.id).memberTier]
        /\ lastEvent'.kind = "confirmTier" =>
              /\ find(members', lastEvent'.id).memberTier = confirmTierChange.newTier
              /\ statsUseTier(find(members', lastEvent'.id), confirmTierChange.newTier)
              /\ confirmTierChange' = NoTierChange
        /\ lastEvent'.kind \in {"tierCancel", "cancelTierChange"} =>
              tiersOf(members') = tiersOf(members)
        /\ tiersOf(members') # tiersOf(members) =>
              lastEvent'.kind \in {"confirmTier", "restart"}
      ]_vars

\* C16 witness: a tier change of member '1' from Enterprise to Indie was
\* confirmed, and the stats of that member are computed with the Indie tier.
C16_Witness ==
    /\ lastEvent = AppEvent("confirmTier", "1")
    /\ members[1].memberTier = "Indie"
    /\ getMemberStats(members[1]).tier = TIERS["Indie"]
    /\ confirmTierChange = NoTierChange

\* The enrollment sets of the members, in list order.
enrollmentSetsOf(ms) == [i \in 1..Len(ms) |-> asSet(ms[i].enrolledPrograms)]

\* C17: saving a candidate enrollment set does not change any member's
\* enrollment set; the change waits for a separate confirmation step, as a
\* tier change does.
C17_EnrollmentChangeWaitsForConfirm ==
    [][lastEvent'.kind = "programSave" =>
          enrollmentSetsOf(members') = enrollmentSetsOf(members)]_vars

\* C17 witness: Save of the programs editor has just written the candidate
\* {inStore, obsolete, mailBack} to member '1', seeded with {inStore,
\* obsolete}; no confirmation is pending or was asked for.
C17_Witness ==
    /\ lastEvent = AppEvent("programSave", "1")
    /\ members[1].enrolledPrograms = <<"inStore", "obsolete", "mailBack">>
    /\ confirmTierChange = NoTierChange
    /\ editingPrograms = NoId

\* The fields of a member that no operation writes.
fixedFields(m) ==
    [id |-> m.id, memberName |-> m.memberName,
     membershipStartDate |-> m.membershipStartDate, programs |-> m.programs]

\* The members are the seeded ones, in the seeded order, up to tier and
\* enrollment.
MembersAsSeeded ==
    \E start \in DemoStartDates :
        /\ Len(members) = Len(DEMO_MEMBERS(start))
        /\ \A i \in 1..Len(members) :
              fixedFields(members[i]) = fixedFields(DEMO_MEMBERS(start)[i])

\* C18: across any sequence of UI actions the member list keeps the seeded
\* members in the seeded order with their id, name, start date and processed
\* quantities; a confirmed tier change writes only the tier of its member, a
\* saved enrollment change only the enrollment of its member, and every other
\* UI action leaves the member list as it is.
C18_OnlyTierAndEnrollmentChange ==
    /\ []MembersAsSeeded
    /\ [][ /\ lastEvent'.kind = "confirmTier" =>
                \A i \in 1..Len(members) :
                    members'[i] =
                        IF members[i].id = lastEvent'.id
                        THEN [members[i] EXCEPT !.memberTier = confirmTierChange.newTier]
                        ELSE members[i]
           /\ lastEvent'.kind = "programSave" =>
                \A i \in 1..Len(members) :
                    members'[i] =
                        IF members[i].id = lastEvent'.id
                        THEN [members[i] EXCEPT !.enrolledPrograms = selectedPrograms]
                        ELSE members[i]
           /\ lastEvent'.kind \notin {"confirmTier", "programSave", "restart"} =>
                members' = members
           /\ Len(members') = Len(members)
         ]_vars

\* C18 witness: the tier of member '2' was changed (confirmed) away from
\* Established; its other fields and all other members are as seeded.
C18_Witness ==
    /\ lastEvent = AppEvent("confirmTier", "2")
    /\ members[2].memberTier # "Established"
    /\ \E start \in DemoStartDates :
          /\ members[2] = [DEMO_MEMBERS(start)[2] EXCEPT !.memberTier = members[2].memberTier]
          /\ \A i \in {1, 3, 4, 5} : members[i] = DEMO_MEMBERS(start)[i]

\* The view mode a stored item stands for.
restoredFrom(item) == IF item \in {"member", "admin"} THEN item ELSE "member"

\* C19: at startup the view mode is the stored flag when that is 'member' or
\* 'admin' and 'member' otherwise; whenever the effect has run the stored
\* flag equals the view mode; so a reload after any sequence of toggles
\* starts in the view mode selected last.
C19_ViewModePersists ==
    /\ viewMode = restoredFrom(saved)
    /\ [](~effectPending => saved = viewMode)
    /\ [][lastEvent'.kind = "restart" =>
            /\ viewMode' = restoredFrom(saved)
            /\ viewMode' = viewMode]_vars

\* C19 witness: a member was selected in the admin view, the view was then
\* toggled to the member view, and the effect has stored 'member'.
C19_Witness ==
    /\ lastEvent.kind = "effect"
    /\ events = 2
    /\ selectedMember # NoMember
    /\ viewMode = "member"
    /\ saved = "member"

-----------------------------------------------------------------------------
(* The detail panel: claim C22, checked under AppSpec.                     *)

\* C22: after any sequence of select, deselect, confirmed tier changes and
\* saved enrollment changes (and every other App event), a non-null
\* selectedMember has the tier and the enrollment set of the member with the
\* same id in the members list; it is in fact that member's record.
C22_SelectedMemberInSync ==
    selectedMember # NoMember =>
        LET listed == find(members, selectedMember.id)
        IN  /\ listed # NoMember
            /\ selectedMember.memberTier = listed.memberTier
            /\ asSet(selectedMember.enrolledPrograms) = asSet(listed.enrolledPrograms)
            /\ selectedMember = listed

\* The enrollment case of C22: member '1' was selected and then its
\* enrollment was changed and saved; the selected record carries the new
\* enrollment.
selectedEnrollmentSaved ==
    /\ lastEvent = AppEvent("programSave", "1")
    /\ selectedMember # NoMember
    /\ selectedMember.id = "1"
    /\ selectedMember.enrolledPrograms = <<"inStore", "obsolete", "mailBack">>
    /\ members[1].enrolledPrograms = <<"inStore", "obsolete", "mailBack">>

\* C22 witness, the tier case: member '1' is selected and a change of its tier
\* from Enterprise to Indie was confirmed (select, edit, choose, save and
\* confirm, in either order of the select and the tier editing); the selected
\* record and the listed record carry the new tier.
C22_Witness ==
    /\ lastEvent = AppEvent("confirmTier", "1")
    /\ selectedMember # NoMember
    /\ selectedMember.id = "1"
    /\ selectedMember.memberTier = "Indie"
    /\ members[1].memberTier = "Indie"
    /\ member = selectedMember

-----------------------------------------------------------------------------
(* The slider calculator in the App: claims C5, C6, C20 and C23, checked   *)
(* under AppSpec.                                                          *)

\* A MemberPortalView is rendered, in the member view or in the detail panel.
viewRendered == member # NoMember
\* The render the calculator state belongs to.
portalTier == TIERS[member.memberTier]
portalRemaining == remainingLbs(member)
enrolledCount == Len(member.enrolledPrograms)
enrolledSet == { member.enrolledPrograms[i] : i \in 1..Len(member.enrolledPrograms) }
portalLbs(p) == lbsOf(portalTier, p, calculatorValues[p])

\* The last event was a slider change of a 2-program member: A is the changed
\* slot, B the other enrolled slot.
portalTwoChanged == viewRendered /\ lastEvent.kind = "change" /\ enrolledCount = 2
portalA == lastEvent.program
portalB == CHOOSE p \in enrolledSet : p # portalA

\* In the action formulas below a step with lastEvent'.kind = "change" handled
\* handleSliderChange(lastEvent'.program, lastEvent'.value), or left every
\* variable unchanged after such a step.

\* C5: the touched history has at most 2 entries, no program twice, and is
\* most-recent-first: a slider change puts its program at the head, followed
\* by the previous most recent other program; a reset empties it.
TouchedWellFormed ==
    /\ Len(touchedSliders) <= 2
    /\ \A i, j \in 1..Len(touchedSliders) : i # j => touchedSliders[i] # touchedSliders[j]
C5_TouchedHistory ==
    /\ []TouchedWellFormed
    /\ [][/\ lastEvent'.kind = "change" =>
                LET p == lastEvent'.program
                IN  /\ touchedSliders'[1] = p
                    /\ \A i \in 1..Len(touchedSliders) :
                          (touchedSliders[i] # p
                              /\ \A j \in 1..(i-1) : touchedSliders[j] = p) =>
                              /\ Len(touchedSliders') = 2
                              /\ touchedSliders'[2] = touchedSliders[i]
                    /\ (\A i \in 1..Len(touchedSliders) : touchedSliders[i] = p) =>
                          Len(touchedSliders') = 1
          /\ lastEvent'.kind = "reset" => touchedSliders' = <<>>
        ]_vars

\* C5 witness: after a slider change the history holds the changed program
\* and, behind it, the program changed before.
C5_Witness ==
    /\ lastEvent.kind = "change"
    /\ Len(touchedSliders) = 2
    /\ touchedSliders[1] = lastEvent.program
    /\ touchedSliders[1] # touchedSliders[2]

\* C6: every calculator slot value is non-negative.
C6_SlotsNonNegative ==
    \A p \in ProgramType : calculatorValues[p] >= 0

\* C6 witness: the changed slot of a 2-program member alone exceeds the
\* remaining target, and the other slot was set to 0.
C6_Witness ==
    /\ portalTwoChanged
    /\ portalLbs(portalA) > portalRemaining
    /\ calculatorValues[portalB] = 0

\* stillRemaining of the render after the last event.
portalStillRemaining ==
    stillRemaining(portalRemaining,
                   calculatorLbs(portalTier, member.enrolledPrograms, calculatorValues))

\* C20: for a two-program member with a positive remaining target, after any
\* slider change the calculator values of the two enrolled programs weigh at
\* least the remaining target, so stillRemaining is 0 and the summary shows
\* 'Commitment reached'.
C20_TwoProgramCompletes ==
    (portalTwoChanged /\ portalRemaining > 0) =>
        /\ portalLbs(portalA) + portalLbs(portalB) >= portalRemaining
        /\ portalStillRemaining = 0

\* C20 witness: after a slider change of a two-program member the two slots
\* weigh less than the remaining target and stillRemaining is positive.
C20_Witness ==
    /\ portalTwoChanged
    /\ portalRemaining > 0
    /\ portalLbs(portalA) + portalLbs(portalB) < portalRemaining
    /\ portalStillRemaining > 0

\* ceil(R / annualCommitment * capacity(p)), computed exactly.
rangeTop(p) ==
    CeilDiv(portalRemaining * capacityOf(portalTier, p), portalTier.annualCommitment)

\* C23: for a member with a positive remaining target R whose view was
\* rendered with that member since it was mounted, in every state reachable
\* by slider changes inside the sliders' ranges and by resets, every enrolled
\* slot value, set by the user or computed, lies in
\* [0, ceil(R / annualCommitment * capacity(program))], and the slot of a
\* program the member is not enrolled in stays 0.
C23_SlotsWithinSliderRange ==
    (viewRendered /\ ~propChanged /\ portalRemaining > 0) =>
        \A p \in ProgramType :
            IF p \in enrolledSet
            THEN /\ calculatorValues[p] >= 0
                 /\ calculatorValues[p] <= rangeTop(p)
                 /\ sliderMax(portalTier, portalRemaining, p) = rangeTop(p)
            ELSE calculatorValues[p] = 0

\* C23 witness: a slider of a two-program member was set to a positive value
\* below the top of its range and the other slot was computed to a positive
\* value inside its range, the third slot being 0.
C23_Witness ==
    /\ portalTwoChanged
    /\ ~propChanged
    /\ portalRemaining > 0
    /\ calculatorValues[portalA] > 0
    /\ calculatorValues[portalA] < rangeTop(portalA)
    /\ calculatorValues[portalB] > 0
    /\ calculatorValues[portalB] <= rangeTop(portalB)
    /\ \A p \in ProgramType \ enrolledSet : calculatorValues[p] = 0

====
